---- MODULE Spec2Model ----
(***************************************************************************)
(* Indentation-driven tree reconstruction: the parsers of excel_style.py,  *)
(* final.py, excel.py and excel_reader.py.                                 *)
(*                                                                         *)
(* A cell is a Python str, modelled as a sequence of one-character         *)
(* strings.  A row is a pair (element cell, type cell).  Python indices    *)
(* are 0-based and kept so: row i of the program is rows[i + 1] here.      *)
(* The ingestion code replaces missing cells by "" (fillna), so a cell is  *)
(* never None.                                                             *)
(***************************************************************************)
EXTENDS Integers, Sequences, FiniteSets, TLC

VARIABLES
    rows,         \* the input: list of (element_raw, type_raw)
    pc,           \* position of the running script
    i,            \* excel_style.parse_rows: index of the top-level loop
    stack,        \* excel_style: active _parse_children calls, innermost last
    top_entries,  \* excel_style.parse_rows: top_entries
    seen,         \* excel_style.parse_rows: seen
    leaves,       \* excel_style.parse_rows / final.py: leaves
    consumed,     \* bookkeeping: the row indices advanced past, in order
    args,         \* arguments of a direct call of a function
    ret,          \* value returned by the last call
    out           \* what the script writes at the end

vars == <<rows, pc, i, stack, top_entries, seen, leaves, consumed, args, ret, out>>

(***************************************************************************)
(* Bounds of the model.                                                    *)
(***************************************************************************)
MaxRows == 4
MaxDepth == 3

(***************************************************************************)
(* Python str operations on cells.                                         *)
(***************************************************************************)
Max(S) == CHOOSE x \in S : \A y \in S : y <= x

\* number of consecutive characters equal to c in s, starting at position from
RunLen(s, from, c) ==
    Max({k \in 0..(Len(s) - from + 1) : \A j \in from..(from + k - 1) : s[j] = c})

\* str.strip(): leading and trailing white space removed
strip(s) ==
    LET lead == RunLen(s, 1, " ")
        nonsp == {k \in 1..Len(s) : s[k] # " "}
    IN  IF nonsp = {} THEN <<>> ELSE SubSeq(s, lead + 1, Max(nonsp))

\* re.sub(r'^\s*>+\s*', '', s): a leading run of markers, with the white
\* space around it, removed; s unchanged when no marker leads it
strip_markers(s) ==
    LET ws1 == RunLen(s, 1, " ")
        arrows == RunLen(s, ws1 + 1, ">")
        ws2 == RunLen(s, ws1 + arrows + 1, " ")
    IN  IF arrows = 0 THEN s ELSE SubSeq(s, ws1 + arrows + ws2 + 1, Len(s))

\* s.split(':')[-1]: the text after the last ':' (s itself without ':')
after_last_colon(s) ==
    LET colons == {k \in 1..Len(s) : s[k] = ":"}
    IN  IF colons = {} THEN s ELSE SubSeq(s, Max(colons) + 1, Len(s))

\* str.lower() on one character, for the letters that occur in the cells
lower_char(c) ==
    CASE c = "A" -> "a"
      [] c = "B" -> "b"
      [] c = "T" -> "t"
      [] OTHER -> c

\* str.lower()
lower(s) == [k \in 1..Len(s) |-> lower_char(s[k])]

\* not str(s).strip()
is_blank(s) == strip(s) = <<>>

\* count_level: length of the leading run of '>' (after white space), 0 for a
\* blank cell
count_level(s) ==
    IF is_blank(s) THEN 0 ELSE RunLen(s, RunLen(s, 1, " ") + 1, ">")

\* excel_style.extract_after_colon / excel_reader.extract_after_colon
extract_after_colon(s) == strip(after_last_colon(strip_markers(strip(s))))

\* clean_name of excel.py and final.py
clean_name(s) == lower(strip(after_last_colon(strip_markers(strip(s)))))

(***************************************************************************)
(* Values built by the parsers.  A child item is a Python str or a         *)
(* one-key dict {name: [items]}; a top-level entry of excel_style is       *)
(* ('leaf', name) or ('mapping', key, children).  The field row is         *)
(* bookkeeping: the index of the row the node was created from.            *)
(***************************************************************************)
Str(name, r) == [kind |-> "str", name |-> name, items |-> <<>>, row |-> r]
Dict(name, items, r) == [kind |-> "dict", name |-> name, items |-> items, row |-> r]
Leaf(name, r) == [kind |-> "leaf", name |-> name, items |-> <<>>, row |-> r]
Mapping(key, items, r) == [kind |-> "mapping", name |-> key, items |-> items, row |-> r]

Row(e, t) == [elem |-> e, type |-> t]
Markers(d) == [k \in 1..d |-> ">"]
Names == {<<"a">>, <<"b">>}
Blank == <<>>

\* level of row idx (0-based) of rs
level_at(rs, idx) == count_level(rs[idx + 1].elem)
\* the lookahead: level of the row after idx, -1 past the end
next_level(rs, idx) == IF idx + 1 < Len(rs) THEN level_at(rs, idx + 1) ELSE -1

(***************************************************************************)
(* excel_style.py, parse_rows and _parse_children, statement by statement. *)
(***************************************************************************)

\* add_leaf without the membership test
add_leaf_always(acc, name) ==
    [seen |-> acc.seen \cup {name}, leaves |-> Append(acc.leaves, name)]

\* seen / leaves update: `if it not in seen: seen.add(it); leaves.append(it)`
add_leaf(acc, name) ==
    IF name \in acc.seen THEN acc
    ELSE [seen |-> acc.seen \cup {name}, leaves |-> Append(acc.leaves, name)]

RECURSIVE collect_leaves_from_items(_, _)
collect_leaves_from_items(items, acc) ==
    IF items = <<>> THEN acc
    ELSE LET it == Head(items)
             acc1 == IF it.kind = "str" THEN add_leaf(acc, it.name)
                     ELSE collect_leaves_from_items(it.items, acc)
         IN  collect_leaves_from_items(Tail(items), acc1)

\* the key of a top-level mapping: the type column, or the element name
mapping_key(type_raw, top_elem) ==
    IF ~is_blank(type_raw) THEN extract_after_colon(type_raw) ELSE top_elem

\* the skip branch passing over two rows
skip_row_twice(idx) == idx + 2
\* the skip branch without its increment
skip_row_stuck(idx) == idx
\* `idx += 1` of the skip branch of _parse_children
skip_row(idx) == idx + 1
\* the children scanned from the opening row itself
child_start_same(idx) == idx
\* `idx + 1`: where the children of the row at idx start
child_start(idx) == idx + 1
\* every deeper row taken for a direct child
is_direct_child_any(lvl, base_level) == lvl > base_level
\* the test written against the level of the parent
is_direct_child_off(lvl, base_level) == lvl = base_level
\* `lvl == base_level + 1`
is_direct_child(lvl, base_level) == lvl = base_level + 1
\* a row at the level of the group taken for a row of its block
ends_block_above(lvl, base_level) == lvl < base_level
\* `lvl <= base_level`: the row belongs to an ancestor
ends_block(lvl, base_level) == lvl <= base_level

Frame(idx, base_level, name, r) ==
    [idx |-> idx, base_level |-> base_level, children |-> <<>>, name |-> name, row |-> r]

StyleElems == {Markers(d) \o nm : d \in 0..MaxDepth, nm \in Names} \cup {Blank}
StyleRows == {Row(e, <<>>) : e \in StyleElems} \cup {Row(<<"b">>, <<"x", ":", "T">>)}
SeqsUpTo(S, n) == UNION {[1..k -> S] : k \in 0..n}

NoArgs == [start_idx |-> 0, base_level |-> 0]
NoReturn == [children |-> <<>>, idx |-> 0, from |-> -1]

InitStyle ==
    /\ rows \in SeqsUpTo(StyleRows, MaxRows)
    /\ pc = "top"
    /\ i = 0
    /\ stack = <<>>
    /\ top_entries = <<>>
    /\ seen = {}
    /\ leaves = <<>>
    /\ consumed = <<>>
    /\ args = NoArgs
    /\ ret = NoReturn
    /\ out = <<>>

Note(idx, how) == [row |-> idx, how |-> how]

\* while i < n fails: return top_entries, leaves
TopExit ==
    /\ pc = "top" /\ i >= Len(rows)
    /\ pc' = "done"
    /\ UNCHANGED <<rows, i, stack, top_entries, seen, leaves, consumed, args, ret, out>>

\* blank element name: i += 1; continue
TopSkipBlank ==
    /\ pc = "top" /\ i < Len(rows)
    /\ is_blank(rows[i + 1].elem)
    /\ i' = i + 1
    /\ consumed' = Append(consumed, Note(i, "skip"))
    /\ UNCHANGED <<rows, pc, stack, top_entries, seen, leaves, args, ret, out>>

\* lvl != 0: mis-indented top-level row, i += 1; continue
TopSkipIndented ==
    /\ pc = "top" /\ i < Len(rows)
    /\ ~is_blank(rows[i + 1].elem)
    /\ level_at(rows, i) # 0
    /\ i' = i + 1
    /\ consumed' = Append(consumed, Note(i, "skip"))
    /\ UNCHANGED <<rows, pc, stack, top_entries, seen, leaves, args, ret, out>>

\* next_lvl == 0, or no next row: a standalone leaf
TopLeaf ==
    /\ pc = "top" /\ i < Len(rows)
    /\ ~is_blank(rows[i + 1].elem)
    /\ level_at(rows, i) = 0
    /\ ~(next_level(rows, i) > 0)
    /\ LET top_elem == extract_after_colon(rows[i + 1].elem)
           acc == add_leaf([seen |-> seen, leaves |-> leaves], top_elem)
       IN  /\ top_entries' = Append(top_entries, Leaf(top_elem, i))
           /\ seen' = acc.seen
           /\ leaves' = acc.leaves
    /\ i' = i + 1
    /\ consumed' = Append(consumed, Note(i, "node"))
    /\ UNCHANGED <<rows, pc, stack, args, ret, out>>

\* next_lvl > 0: call _parse_children(rows, i + 1, 0)
TopMapping ==
    /\ pc = "top" /\ i < Len(rows)
    /\ ~is_blank(rows[i + 1].elem)
    /\ level_at(rows, i) = 0
    /\ next_level(rows, i) > 0
    /\ LET top_elem == extract_after_colon(rows[i + 1].elem)
           key == mapping_key(rows[i + 1].type, top_elem)
       IN  stack' = <<Frame(child_start(i), 0, key, i)>>
    /\ pc' = "children"
    /\ consumed' = Append(consumed, Note(i, "node"))
    /\ UNCHANGED <<rows, i, top_entries, seen, leaves, args, ret, out>>

Top(s) == s[Len(s)]
Pop(s) == SubSeq(s, 1, Len(s) - 1)
SetTop(s, f) == [s EXCEPT ![Len(s)] = f]

\* the loop of the innermost call stops: `return children, idx`; the caller
\* appends the group and continues at the returned index
ChildReturn ==
    /\ pc = "children"
    /\ LET f == Top(stack) IN
       /\ \/ f.idx >= Len(rows)
          \/ /\ f.idx < Len(rows)
             /\ ends_block(level_at(rows, f.idx), f.base_level)
       /\ ret' = [children |-> f.children, idx |-> f.idx, from |-> f.row]
       /\ IF Len(stack) = 1
          THEN LET acc == collect_leaves_from_items(f.children,
                              [seen |-> seen, leaves |-> leaves])
               IN  /\ top_entries' = Append(top_entries, Mapping(f.name, f.children, f.row))
                   /\ seen' = acc.seen
                   /\ leaves' = acc.leaves
                   /\ i' = f.idx
                   /\ stack' = <<>>
                   /\ pc' = "top"
          ELSE LET g == stack[Len(stack) - 1] IN
               /\ stack' = SetTop(Pop(stack),
                              [g EXCEPT !.children = Append(@, Dict(f.name, f.children, f.row)),
                                        !.idx = f.idx])
               /\ UNCHANGED <<top_entries, seen, leaves, i, pc>>
    /\ UNCHANGED <<rows, consumed, args, out>>

\* a direct child with no deeper next row: children.append(name); idx += 1
ChildLeaf ==
    /\ pc = "children"
    /\ LET f == Top(stack) IN
       /\ f.idx < Len(rows)
       /\ ~ends_block(level_at(rows, f.idx), f.base_level)
       /\ is_direct_child(level_at(rows, f.idx), f.base_level)
       /\ ~(next_level(rows, f.idx) > level_at(rows, f.idx))
       /\ stack' = SetTop(stack,
              [f EXCEPT !.children = Append(@, Str(extract_after_colon(rows[f.idx + 1].elem), f.idx)),
                        !.idx = f.idx + 1])
       /\ consumed' = Append(consumed, Note(f.idx, "node"))
    /\ UNCHANGED <<rows, pc, i, top_entries, seen, leaves, args, ret, out>>

\* a direct child followed by a deeper row: _parse_children(rows, idx + 1, lvl)
ChildNested ==
    /\ pc = "children"
    /\ LET f == Top(stack) IN
       /\ f.idx < Len(rows)
       /\ ~ends_block(level_at(rows, f.idx), f.base_level)
       /\ is_direct_child(level_at(rows, f.idx), f.base_level)
       /\ next_level(rows, f.idx) > level_at(rows, f.idx)
       /\ stack' = Append(stack,
              Frame(child_start(f.idx), level_at(rows, f.idx),
                    extract_after_colon(rows[f.idx + 1].elem), f.idx))
       /\ consumed' = Append(consumed, Note(f.idx, "node"))
    /\ UNCHANGED <<rows, pc, i, top_entries, seen, leaves, args, ret, out>>

\* deeper indentation without proper parent: idx += 1
ChildSkip ==
    /\ pc = "children"
    /\ LET f == Top(stack) IN
       /\ f.idx < Len(rows)
       /\ ~ends_block(level_at(rows, f.idx), f.base_level)
       /\ ~is_direct_child(level_at(rows, f.idx), f.base_level)
       /\ stack' = SetTop(stack, [f EXCEPT !.idx = skip_row(f.idx)])
       /\ consumed' = Append(consumed, Note(f.idx, "skip"))
    /\ UNCHANGED <<rows, pc, i, top_entries, seen, leaves, args, ret, out>>

(***************************************************************************)
(* excel_style.py, the compact text: format_item_compact and               *)
(* build_compact_text, character by character.                             *)
(***************************************************************************)
RECURSIVE join(_, _)
\* sep.join(parts)
join(parts, sep) ==
    IF parts = <<>> THEN <<>>
    ELSE IF Len(parts) = 1 THEN parts[1]
    ELSE parts[1] \o sep \o join(Tail(parts), sep)

RECURSIVE format_item_compact(_)
format_item_compact(item) ==
    IF item.kind = "str" THEN item.name
    ELSE LET inner == join([k \in DOMAIN item.items |-> format_item_compact(item.items[k])],
                           <<",">>)
         IN  <<"{">> \o item.name \o <<":", "[">> \o inner \o <<"]">> \o <<"}">>

\* the part of one top-level entry
compact_part(ent) ==
    IF ent.kind = "leaf" THEN ent.name
    ELSE LET children_str == join([k \in DOMAIN ent.items |-> format_item_compact(ent.items[k])],
                                  <<",">>)
         IN  <<"{">> \o (ent.name \o <<":", "{">>) \o children_str \o <<"}">> \o <<"}", "}">>

build_compact_text(entries) ==
    <<"{">> \o join([k \in DOMAIN entries |-> compact_part(entries[k])], <<",">>) \o <<"}">>

\* __main__: compact_str = build_compact_text(top_entries), written to the file
WriteCompact ==
    /\ pc = "done"
    /\ out' = build_compact_text(top_entries)
    /\ pc' = "written"
    /\ UNCHANGED <<rows, i, stack, top_entries, seen, leaves, consumed, args, ret>>

NextStyle ==
    \/ TopExit
    \/ TopSkipBlank
    \/ TopSkipIndented
    \/ TopLeaf
    \/ TopMapping
    \/ ChildReturn
    \/ ChildLeaf
    \/ ChildNested
    \/ ChildSkip
    \/ WriteCompact

SpecStyle == InitStyle /\ [][NextStyle]_vars

(***************************************************************************)
(* excel_style.py, the same functions as values: _parse_children(rows,     *)
(* start_idx, base_level) returns [children, idx], parse_rows(rows)        *)
(* returns [top_entries, leaves].                                          *)
(***************************************************************************)
RECURSIVE _parse_children(_, _, _), children_loop(_, _, _, _)

\* the while loop of _parse_children, from idx with the children so far
children_loop(rs, idx, base_level, children) ==
    IF idx >= Len(rs) THEN [children |-> children, idx |-> idx]
    ELSE LET lvl == level_at(rs, idx)
             name == extract_after_colon(rs[idx + 1].elem)
         IN  IF ends_block(lvl, base_level) THEN [children |-> children, idx |-> idx]
             ELSE IF is_direct_child(lvl, base_level)
             THEN IF next_level(rs, idx) > lvl
                  THEN LET r == _parse_children(rs, child_start(idx), lvl)
                       IN  children_loop(rs, r.idx, base_level,
                                         Append(children, Dict(name, r.children, idx)))
                  ELSE children_loop(rs, idx + 1, base_level,
                                     Append(children, Str(name, idx)))
             ELSE children_loop(rs, skip_row(idx), base_level, children)

_parse_children(rs, start_idx, base_level) ==
    children_loop(rs, start_idx, base_level, <<>>)

RECURSIVE rows_loop(_, _, _, _)
\* the while loop of parse_rows, from index k with the entries and leaves so far
rows_loop(rs, k, entries, acc) ==
    IF k >= Len(rs) THEN [top_entries |-> entries, leaves |-> acc.leaves]
    ELSE IF is_blank(rs[k + 1].elem) THEN rows_loop(rs, k + 1, entries, acc)
    ELSE IF level_at(rs, k) # 0 THEN rows_loop(rs, k + 1, entries, acc)
    ELSE LET top_elem == extract_after_colon(rs[k + 1].elem)
         IN  IF next_level(rs, k) > 0
             THEN LET key == mapping_key(rs[k + 1].type, top_elem)
                      r == _parse_children(rs, child_start(k), 0)
                  IN  rows_loop(rs, r.idx, Append(entries, Mapping(key, r.children, k)),
                                collect_leaves_from_items(r.children, acc))
             ELSE rows_loop(rs, k + 1, Append(entries, Leaf(top_elem, k)),
                            add_leaf(acc, top_elem))

parse_rows(rs) == rows_loop(rs, 0, <<>>, [seen |-> {}, leaves |-> <<>>])

\* the statement-by-statement run ends with the value of parse_rows(rows)
StepsAgreeWithValue ==
    pc \in {"done", "written"} => [top_entries |-> top_entries, leaves |-> leaves] = parse_rows(rows)

(***************************************************************************)
(* Walks over the values, used to state the properties.                    *)
(***************************************************************************)
RECURSIVE item_rows(_), preorder_leaves(_), erase(_)

\* the rows the nodes of items were created from, in pre-order
item_rows(items) ==
    IF items = <<>> THEN <<>>
    ELSE <<Head(items).row>> \o item_rows(Head(items).items) \o item_rows(Tail(items))

\* the leaf names of items in pre-order, repetitions included
preorder_leaves(items) ==
    IF items = <<>> THEN <<>>
    ELSE LET it == Head(items)
         IN  (IF it.kind \in {"str", "leaf"} THEN <<it.name>> ELSE preorder_leaves(it.items))
             \o preorder_leaves(Tail(items))

\* items without the bookkeeping field row: the plain Python value
erase(items) ==
    [k \in DOMAIN items |->
        [kind |-> items[k].kind, name |-> items[k].name, items |-> erase(items[k].items)]]

\* s with every element that already occurs earlier removed
first_occurrences(s) ==
    LET keep == {k \in 1..Len(s) : \A j \in 1..(k - 1) : s[j] # s[k]}
        nth(m) == CHOOSE k \in keep : Cardinality({j \in keep : j < k}) = m - 1
    IN  [m \in 1..Cardinality(keep) |-> s[nth(m)]]

no_duplicates(s) == \A j, k \in 1..Len(s) : s[j] = s[k] => j = k

RECURSIVE stack_rows(_)
\* the rows of the nodes the active calls hold: each call's opening row, then
\* the children it has collected
stack_rows(st) ==
    IF st = <<>> THEN <<>>
    ELSE <<Head(st).row>> \o item_rows(Head(st).children) \o stack_rows(Tail(st))

\* the index the scan stands at: of the innermost active loop
cur_idx == IF pc = "children" THEN Top(stack).idx ELSE i

node_notes == SelectSeq(consumed, LAMBDA c : c.how = "node")

\* C1: row conservation.  The rows advanced past so far are exactly
\* 0, 1, ..., cur_idx - 1, each once and in order, by the top-level loop and
\* the recursive calls together; the nodes built so far come one each from
\* the rows that were not skipped; and parse_rows returns with i = len(rows).
C1_RowConservation ==
    /\ \A k \in 1..Len(consumed) : consumed[k].row = k - 1
    /\ Len(consumed) = cur_idx
    /\ item_rows(top_entries) \o stack_rows(stack)
         = [k \in 1..Len(node_notes) |-> node_notes[k].row]
    /\ no_duplicates(item_rows(top_entries) \o stack_rows(stack))
    /\ pc \in {"done", "written"} => i = Len(rows) /\ Len(consumed) = Len(rows)

\* a finished parse of MaxRows rows with a skipped row, and a group nested in a group
C1_Witness ==
    /\ pc = "done"
    /\ Len(rows) >= 4
    /\ \E k \in 1..Len(consumed) : consumed[k].how = "skip"
    /\ \E e \in 1..Len(top_entries) :
          /\ top_entries[e].kind = "mapping"
          /\ \E c \in 1..Len(top_entries[e].items) : top_entries[e].items[c].kind = "dict"

\* what is left to do: decreases with every statement
measure ==
    2 * (Len(rows) - cur_idx) + Len(stack) + (IF pc \in {"done", "written"} THEN 0 ELSE 1)

C2_IndexBounded ==
    /\ i <= Len(rows)
    /\ \A k \in 1..Len(stack) : stack[k].idx <= Len(rows) /\ stack[k].idx > stack[k].row
    /\ ret.idx > ret.from /\ ret.idx <= Len(rows)
    /\ measure >= 0

C2_Progress ==
    /\ cur_idx' >= cur_idx
    /\ \/ cur_idx' > cur_idx
       \/ Len(stack') < Len(stack)
       \/ pc' = "done"
       \/ pc' = "written"
    /\ pc' # "written" => measure' < measure

\* C2: termination.  No index exceeds len(rows); a call returns an index
\* greater than the index of the row that opened the group; every loop
\* iteration stops its loop or strictly increases the row index: the index
\* never decreases, and a measure that is never negative strictly decreases
\* with every statement, so no run of parse_rows has more than
\* 2 * len(rows) + 1 statements before its return.
C2_Termination ==
    /\ []C2_IndexBounded
    /\ [][C2_Progress]_vars

\* a finished parse in which a call nested in a call returned and a row that
\* skips a level was passed
C2_Witness ==
    /\ pc = "done"
    /\ ret.from > 0
    /\ ret.idx > ret.from + 1
    /\ \E k \in 1..Len(consumed) : consumed[k].how = "skip" /\ level_at(rows, k - 1) > 1

\* C3: the leaf list has no identifier twice and lists the identifiers in the
\* order of their first occurrence in the pre-order walk of top_entries.
C3_LeavesUniqueInOrder ==
    /\ no_duplicates(leaves)
    /\ leaves = first_occurrences(preorder_leaves(top_entries))

\* a finished parse where a name is repeated and a group holds a nested group
C3_Witness ==
    /\ pc = "done"
    /\ Len(preorder_leaves(top_entries)) > Len(leaves)
    /\ \E e \in 1..Len(top_entries) :
          /\ top_entries[e].kind = "mapping"
          /\ \E c \in 1..Len(top_entries[e].items) : top_entries[e].items[c].kind = "dict"

\* the rows whose element cell is not blank
non_blank(rs) == SelectSeq(rs, LAMBDA r : ~is_blank(r.elem))

\* C7: a row with a blank element cell is skipped wherever it occurs and does
\* not end or alter the enclosing group: parse_rows(rows) is parse_rows of
\* the rows with the blank-element rows removed.
C7_BlankRowsSkipped ==
    pc = "done" =>
        LET r == parse_rows(non_blank(rows))
        IN  /\ erase(top_entries) = erase(r.top_entries)
            /\ leaves = r.leaves

count_of(s, c) == Cardinality({k \in 1..Len(s) : s[k] = c})

\* C10: the compact text.  A tree of one group with two leaf children renders
\* as {key:{x,y}}; in every compact text the braces are balanced and there is
\* no square bracket.
C10_CompactForm ==
    pc = "written" =>
        /\ (/\ Len(top_entries) = 1
            /\ top_entries[1].kind = "mapping"
            /\ Len(top_entries[1].items) = 2
            /\ \A k \in 1..2 : top_entries[1].items[k].kind = "str")
           => out = <<"{">> \o top_entries[1].name \o <<":", "{">>
                      \o top_entries[1].items[1].name \o <<",">>
                      \o top_entries[1].items[2].name \o <<"}", "}">>
        /\ count_of(out, "{") = count_of(out, "}")
        /\ count_of(out, "[") = 0

(***************************************************************************)
(* _parse_children and parse_rows of excel_style.py called directly on the *)
(* same rows: _parse_children(rows, start_idx, base_level), then           *)
(* parse_rows(rows).                                                       *)
(***************************************************************************)
OrphanInput == <<Row(<<">", "c", "h", "i", "l", "d">>, <<"t">>)>>
CallRows == {Row(Markers(d) \o <<"a">>, <<>>) : d \in 0..MaxDepth}

InitCall ==
    /\ rows \in SeqsUpTo(CallRows, MaxRows) \cup {OrphanInput}
    /\ args \in [start_idx : 0..Len(rows), base_level : 0..MaxDepth]
    /\ pc = "call"
    /\ i = 0
    /\ stack = <<>>
    /\ top_entries = <<>>
    /\ seen = {}
    /\ leaves = <<>>
    /\ consumed = <<>>
    /\ ret = NoReturn
    /\ out = <<>>

Call_parse_children ==
    /\ pc = "call"
    /\ LET r == _parse_children(rows, args.start_idx, args.base_level)
       IN  ret' = [children |-> r.children, idx |-> r.idx, from |-> -1]
    /\ pc' = "returned"
    /\ UNCHANGED <<rows, i, stack, top_entries, seen, leaves, consumed, args, out>>

Call_parse_rows ==
    /\ pc = "returned"
    /\ LET r == parse_rows(rows)
       IN  /\ top_entries' = r.top_entries
           /\ leaves' = r.leaves
    /\ pc' = "done"
    /\ UNCHANGED <<rows, i, stack, seen, consumed, args, ret, out>>

NextCall == Call_parse_children \/ Call_parse_rows

SpecCall == InitCall /\ [][NextCall]_vars

orphan_case == rows = OrphanInput /\ args = [start_idx |-> 0, base_level |-> 0]

\* C9 as stated: for the input [(">child", "t")], _parse_children called with
\* start index 0 and base depth 0 returns empty children and the start index,
\* and parse_rows returns an empty tree and an empty leaf list.
C9_OrphanReturnsEmpty ==
    orphan_case =>
        /\ pc \in {"returned", "done"} => ret.children = <<>> /\ ret.idx = args.start_idx
        /\ pc = "done" => top_entries = <<>> /\ leaves = <<>>

\* C9 amended: for that input the call takes the row as a direct child and
\* returns children [child] and next index 1, while parse_rows returns an
\* empty tree and an empty leaf list; a call returns empty children and its
\* start index exactly when the start is past the end or the row there has a
\* depth of at most the base depth.
C9_OrphanAmended ==
    /\ (orphan_case /\ pc \in {"returned", "done"})
          => ret.children = <<Str(<<"c", "h", "i", "l", "d">>, 0)>> /\ ret.idx = 1
    /\ (rows = OrphanInput /\ pc = "done") => top_entries = <<>> /\ leaves = <<>>
    /\ pc \in {"returned", "done"} =>
          ((ret.children = <<>> /\ ret.idx = args.start_idx)
             <=> (\/ args.start_idx >= Len(rows)
                  \/ level_at(rows, args.start_idx) <= args.base_level))

C9_Witness == orphan_case /\ pc = "done"

(***************************************************************************)
(* final.py: build_structure, process_excel and extract_leaves.            *)
(* count_level is the function of excel_style.py, word for word.           *)
(***************************************************************************)

\* clean_type; its None is the empty string here: both are false in
\* `clean_type(type_raw) or name`, its only use
clean_type(t) ==
    IF is_blank(t) THEN <<>> ELSE lower(strip(after_last_colon(strip(t))))

\* `key = clean_type(type_raw) or name`
group_key(type_raw, name) ==
    IF clean_type(type_raw) # <<>> THEN clean_type(type_raw) ELSE name

\* the children parsed one level up
child_level_same(level) == level
\* `level+1` of the recursive call
child_level(level) == level + 1

\* the lookahead taking a row of the same depth for a child
has_children_or_same(next_lvl, level) == next_lvl >= level
\* `if next_lvl > level:`
has_children(next_lvl, level) == next_lvl > level

RECURSIVE build_structure(_, _, _), structure_loop(_, _, _, _)

\* the while loop of build_structure, from index k with the result so far
structure_loop(rs, k, level, result) ==
    IF k >= Len(rs) THEN [result |-> result, i |-> k]
    ELSE LET lvl == level_at(rs, k)
             name == clean_name(rs[k + 1].elem)
         IN  IF lvl < level THEN [result |-> result, i |-> k]
             ELSE IF lvl = level
             THEN IF has_children(next_level(rs, k), level)
                  THEN LET r == build_structure(rs, k + 1, child_level(level))
                       IN  structure_loop(rs, r.i, level,
                               Append(result, Dict(group_key(rs[k + 1].type, name), r.result, k)))
                  ELSE structure_loop(rs, k + 1, level, Append(result, Str(name, k)))
             ELSE structure_loop(rs, k + 1, level, result)

build_structure(rs, start, level) == structure_loop(rs, start, level, <<>>)

\* the last lines of process_excel: a lone group is the structure, anything
\* else is wrapped as {"root": structure}
outer_structure(structure) ==
    IF Len(structure) = 1 /\ structure[1].kind = "dict" THEN structure[1]
    ELSE Dict(<<"r", "o", "o", "t">>, structure, -1)

RECURSIVE extract_leaves(_, _)
\* extract_leaves(node, leaves): node a str or a dict; the list that is a
\* dict's value is walked item by item
extract_leaves(node, acc) ==
    IF node.kind = "str" THEN Append(acc, node.name)
    ELSE LET walk[k \in 0..Len(node.items)] ==
                 IF k = 0 THEN acc ELSE extract_leaves(node.items[k], walk[k - 1])
         IN  walk[Len(node.items)]

FinalRows ==
    {Row(Markers(d) \o <<"a">>, <<>>) : d \in 0..MaxDepth}
      \cup {Row(Markers(d) \o <<"n", ":", "B">>, <<"x", ":", "T">>) : d \in 0..MaxDepth}

\* rows as process_excel hands them to build_structure: no blank element
InitFinal ==
    /\ rows \in SeqsUpTo(FinalRows, MaxRows)
    /\ pc = "start"
    /\ i = 0
    /\ stack = <<>>
    /\ top_entries = <<>>
    /\ seen = {}
    /\ leaves = <<>>
    /\ consumed = <<>>
    /\ args = NoArgs
    /\ ret = NoReturn
    /\ out = <<>>

\* final_structure = process_excel(excel_file)
FinalProcessExcel ==
    /\ pc = "start"
    /\ LET r == build_structure(rows, 0, 0)
       IN  /\ top_entries' = r.result
           /\ i' = r.i
           /\ out' = outer_structure(r.result)
    /\ pc' = "built"
    /\ UNCHANGED <<rows, stack, seen, leaves, consumed, args, ret>>

\* leaves = extract_leaves(final_structure)
FinalExtractLeaves ==
    /\ pc = "built"
    /\ leaves' = extract_leaves(out, <<>>)
    /\ pc' = "done"
    /\ UNCHANGED <<rows, i, stack, top_entries, seen, consumed, args, ret, out>>

NextFinal == FinalProcessExcel \/ FinalExtractLeaves

SpecFinal == InitFinal /\ [][NextFinal]_vars

\* some name is a leaf in two different subtrees of the structure
in_two_subtrees(node) ==
    \E j, k \in 1..Len(node.items) :
        /\ j < k
        /\ node.items[j].kind = "dict" /\ node.items[k].kind = "dict"
        /\ \E m \in 1..Len(preorder_leaves(node.items[j].items)) :
           \E n \in 1..Len(preorder_leaves(node.items[k].items)) :
              preorder_leaves(node.items[j].items)[m] = preorder_leaves(node.items[k].items)[n]

\* C4: applied to a tree in which a leaf name occurs in two different
\* subtrees, extract_leaves returns that name exactly once, at the position of
\* its first occurrence in the pre-order walk.
C4_LeavesOnce ==
    (pc = "done" /\ in_two_subtrees(out)) =>
        /\ no_duplicates(leaves)
        /\ leaves = first_occurrences(preorder_leaves(<<out>>))

\* first row at depth 0, every later row at most one deeper than the row before
well_formed(rs) ==
    /\ rs # <<>> => level_at(rs, 0) = 0
    /\ \A k \in 1..(Len(rs) - 1) : level_at(rs, k) <= level_at(rs, k - 1) + 1

RECURSIVE depth_matches(_, _, _)
\* every node of items, nested d groups deep, comes from a row of d markers
depth_matches(rs, items, d) ==
    \A k \in 1..Len(items) :
        /\ level_at(rs, items[k].row) = d
        /\ depth_matches(rs, items[k].items, d + 1)

\* C5: depth monotonicity of build_structure.  On a well-formed input every
\* node of the returned tree is nested as deep as its row has markers.
C5_DepthMatchesMarkers ==
    (pc \in {"built", "done"} /\ well_formed(rows)) => depth_matches(rows, top_entries, 0)

\* a well-formed input of four rows whose tree nests three groups
C5_Witness ==
    /\ pc = "done"
    /\ well_formed(rows)
    /\ Len(rows) = 4
    /\ \E k \in 1..Len(rows) : level_at(rows, k - 1) = 3
    /\ Len(item_rows(top_entries)) = 4

(***************************************************************************)
(* Python dicts keep insertion order; d[key] = value on a key already      *)
(* there replaces the value in place.  A dict is the sequence of its       *)
(* entries, each entry a node named by its key.                            *)
(***************************************************************************)
dict_set(d, entry) ==
    IF \E k \in 1..Len(d) : d[k].name = entry.name
    THEN [k \in 1..Len(d) |-> IF d[k].name = entry.name THEN entry ELSE d[k]]
    ELSE Append(d, entry)

(***************************************************************************)
(* excel.py: parse_block and parse_rows.  count_level and clean_name are   *)
(* the functions above (excel.py tests `not s` where the others test       *)
(* `s is None`, the same on a str).                                        *)
(***************************************************************************)
RECURSIVE parse_block(_, _, _), block_loop(_, _, _, _)

\* the while loop of parse_block, from index k with the items so far
block_loop(rs, k, base_level, items) ==
    IF k >= Len(rs) THEN [items |-> items, i |-> k]
    ELSE LET lvl == level_at(rs, k)
             name == clean_name(rs[k + 1].elem)
         IN  IF lvl <= base_level THEN [items |-> items, i |-> k]
             ELSE IF next_level(rs, k) > lvl
             THEN LET r == parse_block(rs, k + 1, lvl)
                  IN  block_loop(rs, r.i, base_level, Append(items, Dict(name, r.items, k)))
             ELSE block_loop(rs, k + 1, base_level, Append(items, Str(name, k)))

parse_block(rs, start_idx, base_level) == block_loop(rs, start_idx, base_level, <<>>)

RECURSIVE excel_rows_loop(_, _, _)
\* the while loop of excel.py's parse_rows, from index k with the mapping so far
excel_rows_loop(rs, k, mapping) ==
    IF k >= Len(rs) THEN mapping
    ELSE IF is_blank(rs[k + 1].elem) THEN excel_rows_loop(rs, k + 1, mapping)
    ELSE IF level_at(rs, k) # 0 THEN excel_rows_loop(rs, k + 1, mapping)
    ELSE LET name == clean_name(rs[k + 1].elem)
         IN  IF next_level(rs, k) > 0
             THEN LET key == IF ~is_blank(rs[k + 1].type)
                             THEN clean_name(rs[k + 1].type) ELSE name
                      r == parse_block(rs, k + 1, 0)
                  IN  excel_rows_loop(rs, r.i, dict_set(mapping, Mapping(key, r.items, k)))
             ELSE excel_rows_loop(rs, k + 1, dict_set(mapping, Mapping(name, <<>>, k)))

\* parse_rows of excel.py
excel_parse_rows(rs) == excel_rows_loop(rs, 0, <<>>)

InitExcel ==
    /\ rows \in SeqsUpTo(StyleRows, MaxRows)
    /\ pc = "start"
    /\ i = 0
    /\ stack = <<>>
    /\ top_entries = <<>>
    /\ seen = {}
    /\ leaves = <<>>
    /\ consumed = <<>>
    /\ args = NoArgs
    /\ ret = NoReturn
    /\ out = <<>>

\* mapping = process_excel(excel_file)
ExcelParseRows ==
    /\ pc = "start"
    /\ out' = excel_parse_rows(rows)
    /\ pc' = "parsed"
    /\ UNCHANGED <<rows, i, stack, top_entries, seen, leaves, consumed, args, ret>>

\* json.dump(mapping, f): final_mapping.json written
ExcelWrite ==
    /\ pc = "parsed"
    /\ pc' = "done"
    /\ UNCHANGED <<rows, i, stack, top_entries, seen, leaves, consumed, args, ret, out>>

NextExcel == ExcelParseRows \/ ExcelWrite

SpecExcel == InitExcel /\ [][NextExcel]_vars

RECURSIVE children_one_deeper(_, _)
\* every node under items with children has them from rows exactly one level
\* deeper than its own row
children_one_deeper(rs, items) ==
    \A k \in 1..Len(items) :
        /\ \A c \in 1..Len(items[k].items) :
              level_at(rs, items[k].items[c].row) = level_at(rs, items[k].row) + 1
        /\ children_one_deeper(rs, items[k].items)

\* C6: in the tree of excel.py's parse_rows every group made from a row of
\* depth d has as children only nodes made from rows of depth d + 1.
C6_ChildrenOneDeeper ==
    pc \in {"parsed", "done"} => children_one_deeper(rows, out)

(***************************************************************************)
(* excel_reader.py: parse_rows with its nested parse_children and          *)
(* collect_leaves_from_list.  count_level and extract_after_colon are the  *)
(* functions of excel_style.py, word for word, and parse_children is       *)
(* _parse_children with rows and n taken from the enclosing call.          *)
(***************************************************************************)

\* `if item not in all_leaves: all_leaves.append(item)`
reader_add_leaf(all_leaves, name) ==
    IF \E k \in 1..Len(all_leaves) : all_leaves[k] = name THEN all_leaves
    ELSE Append(all_leaves, name)

RECURSIVE collect_leaves_from_list(_, _)
collect_leaves_from_list(lst, all_leaves) ==
    IF lst = <<>> THEN all_leaves
    ELSE LET item == Head(lst)
             l1 == IF item.kind = "str" THEN reader_add_leaf(all_leaves, item.name)
                   ELSE collect_leaves_from_list(item.items, all_leaves)
         IN  collect_leaves_from_list(Tail(lst), l1)

RECURSIVE ordered_children(_, _)
\* od = OrderedDict(); od[ch] = None for a str, od[k] = v for a dict {k: v}
ordered_children(children_list, od) ==
    IF children_list = <<>> THEN od
    ELSE ordered_children(Tail(children_list), dict_set(od, Head(children_list)))

\* `top_type = extract_after_colon(type_raw) if type_raw else top_elem`
reader_top_type(type_raw, top_elem) ==
    IF type_raw # <<>> THEN extract_after_colon(type_raw) ELSE top_elem

RECURSIVE reader_rows_loop(_, _, _, _)
\* the while loop of excel_reader.py's parse_rows; a standalone entry
\* result[top_type] = top_elem is a "leaf" entry with its value in items
reader_rows_loop(rs, k, result, all_leaves) ==
    IF k >= Len(rs) THEN [result |-> result, all_leaves |-> all_leaves]
    ELSE IF level_at(rs, k) # 0 THEN reader_rows_loop(rs, k + 1, result, all_leaves)
    ELSE LET top_elem == extract_after_colon(rs[k + 1].elem)
             top_type == reader_top_type(rs[k + 1].type, top_elem)
         IN  IF next_level(rs, k) > 0
             THEN LET r == _parse_children(rs, k + 1, 0)
                      od == ordered_children(r.children, <<>>)
                  IN  reader_rows_loop(rs, r.idx,
                          dict_set(result, Mapping(top_type, od, k)),
                          collect_leaves_from_list(r.children, all_leaves))
             ELSE reader_rows_loop(rs, k + 1,
                      dict_set(result, [kind |-> "leaf", name |-> top_type,
                                        items |-> <<Str(top_elem, k)>>, row |-> k]),
                      reader_add_leaf(all_leaves, top_elem))

\* parse_rows of excel_reader.py
reader_parse_rows(rs) == reader_rows_loop(rs, 0, <<>>, <<>>)

ReaderElems ==
    {Markers(d) \o nm : d \in 0..MaxDepth, nm \in Names}
      \cup {Blank, <<" ">>, <<">">>, <<"n", ":">>}
ReaderRows == {Row(e, <<>>) : e \in ReaderElems} \cup {Row(<<"b">>, <<"x", ":", "T">>)}

InitReader ==
    /\ rows \in SeqsUpTo(ReaderRows, MaxRows)
    /\ pc = "start"
    /\ i = 0
    /\ stack = <<>>
    /\ top_entries = <<>>
    /\ seen = {}
    /\ leaves = <<>>
    /\ consumed = <<>>
    /\ args = NoArgs
    /\ ret = NoReturn
    /\ out = <<>>

\* mapping, leaves = process_excel(excel_file)
ReaderParseRows ==
    /\ pc = "start"
    /\ LET r == reader_parse_rows(rows)
       IN  /\ top_entries' = r.result
           /\ leaves' = r.all_leaves
    /\ pc' = "parsed"
    /\ UNCHANGED <<rows, i, stack, seen, consumed, args, ret, out>>

\* json.dump(mapping_to_jsonable(mapping), f); json.dump(leaves, f)
ReaderWrite ==
    /\ pc = "parsed"
    /\ out' = [mapping |-> erase(top_entries), leaves |-> leaves]
    /\ pc' = "done"
    /\ UNCHANGED <<rows, i, stack, top_entries, seen, leaves, consumed, args, ret>>

NextReader == ReaderParseRows \/ ReaderWrite

SpecReader == InitReader /\ [][NextReader]_vars

RECURSIVE names_in(_)
\* every key and every leaf name in items
names_in(items) ==
    UNION {{items[k].name} \cup names_in(items[k].items) : k \in 1..Len(items)}

\* C8: an empty canonical name is never a leaf: the leaf list and the mapping
\* returned by excel_reader.py's parse_rows hold no empty identifier.
C8_NoEmptyIdentifier ==
    pc \in {"parsed", "done"} =>
        /\ \A k \in 1..Len(leaves) : leaves[k] # <<>>
        /\ <<>> \notin names_in(top_entries)

(***************************************************************************)
(* excel_style.py, the last script of the file: count_level and clean_name *)
(* with the markers '>' and '/', and parse_structure.  A leaf of the       *)
(* structure is the entry name: [], a group the entry name: {...}.         *)
(***************************************************************************)

\* number of consecutive characters of s that are in cs, from position from
RunLenIn(s, from, cs) ==
    Max({k \in 0..(Len(s) - from + 1) : \A j \in from..(from + k - 1) : s[j] \in cs})

\* count_level: re.match(r'^\s*([>/]+)', s); no test for a blank cell
structure_count_level(s) == RunLenIn(s, RunLen(s, 1, " ") + 1, {">", "/"})

\* re.sub(r'^\s*[>/]+\s*', '', t)
strip_markers_slash(s) ==
    LET ws1 == RunLen(s, 1, " ")
        marks == RunLenIn(s, ws1 + 1, {">", "/"})
        ws2 == RunLen(s, ws1 + marks + 1, " ")
    IN  IF marks = 0 THEN s ELSE SubSeq(s, ws1 + marks + ws2 + 1, Len(s))

\* clean_name of the last script
structure_clean_name(s) == lower(strip(after_last_colon(strip_markers_slash(strip(s)))))

structure_level_at(rs, idx) == structure_count_level(rs[idx + 1].elem)
structure_next_level(rs, idx) ==
    IF idx + 1 < Len(rs) THEN structure_level_at(rs, idx + 1) ELSE -1

\* the node keyed by the type column where there is one
structure_key_type(elem_raw, type_raw) ==
    IF is_blank(type_raw) THEN structure_clean_name(elem_raw)
    ELSE structure_clean_name(type_raw)
\* `name = clean_name(elem_raw)`
structure_key(elem_raw, type_raw) == structure_clean_name(elem_raw)

RECURSIVE parse_structure(_, _, _), parse_structure_loop(_, _, _, _)

\* the while loop of parse_structure, from index k with the result so far
parse_structure_loop(rs, k, base_level, result) ==
    IF k >= Len(rs) THEN [result |-> result, i |-> k]
    ELSE LET lvl == structure_level_at(rs, k)
             name == structure_key(rs[k + 1].elem, rs[k + 1].type)
         IN  IF lvl < base_level THEN [result |-> result, i |-> k]
             ELSE IF lvl = base_level
             THEN IF structure_next_level(rs, k) > base_level
                  THEN LET r == parse_structure(rs, k + 1, base_level + 1)
                       IN  parse_structure_loop(rs, r.i, base_level,
                               dict_set(result, Dict(name, r.result, k)))
                  ELSE parse_structure_loop(rs, k + 1, base_level,
                               dict_set(result, Str(name, k)))
             ELSE parse_structure_loop(rs, k + 1, base_level, result)

parse_structure(rs, start, base_level) == parse_structure_loop(rs, start, base_level, <<>>)

\* the example of __main__: vdvbhbd:a / vd shdk:b (djbvkj:btype) / >dvhbdhvdh:c
ExampleData ==
    << Row(<<"v", ":", "a">>, <<"x", ":", "s">>),
       Row(<<"v", " ", "s", ":", "b">>, <<"d", ":", "b", "t", "y", "p", "e">>),
       Row(<<">", "d", ":", "c">>, <<"x", ":", "s">>) >>

StructureRows ==
    {Row(Markers(d) \o nm, <<>>) : d \in 0..MaxDepth, nm \in Names}
      \cup {Row(<<"/", "a">>, <<>>), Row(<<"b">>, <<"x", ":", "T">>)}

InitStructure ==
    /\ rows \in SeqsUpTo(StructureRows, MaxRows) \cup {ExampleData}
    /\ pc = "start"
    /\ i = 0
    /\ stack = <<>>
    /\ top_entries = <<>>
    /\ seen = {}
    /\ leaves = <<>>
    /\ consumed = <<>>
    /\ args = NoArgs
    /\ ret = NoReturn
    /\ out = <<>>

\* structure_dict, _ = parse_structure(rows, start=0, base_level=0)
MainParseStructure ==
    /\ pc = "start"
    /\ LET r == parse_structure(rows, 0, 0)
       IN  /\ top_entries' = r.result
           /\ i' = r.i
    /\ pc' = "done"
    /\ UNCHANGED <<rows, stack, seen, leaves, consumed, args, ret, out>>

NextStructure == MainParseStructure

SpecStructure == InitStructure /\ [][NextStructure]_vars

\* the indices of the rows that are direct children of row r: one level
\* deeper than r, before the next row at the level of r or above
direct_child_rows(rs, r) ==
    LET lvl == structure_level_at(rs, r)
        in_block(k) == \A j \in (r + 1)..k : structure_level_at(rs, j) > lvl
    IN  SelectSeq([k \in 1..Len(rs) |-> k - 1],
                  LAMBDA k : k > r /\ in_block(k) /\ structure_level_at(rs, k) = lvl + 1)

top_level_rows(rs) ==
    SelectSeq([k \in 1..Len(rs) |-> k - 1], LAMBDA k : structure_level_at(rs, k) = 0)

names_of(rs, idxs) == [k \in 1..Len(idxs) |-> structure_clean_name(rs[idxs[k] + 1].elem)]
keys_of(items) == [k \in 1..Len(items) |-> items[k].name]

RECURSIVE structure_nodes_ok(_, _)
\* every entry under items has the element name of its row as key, is a group
\* exactly when the row after its row is deeper, and as a group holds one
\* entry per name of its direct children, in their order
structure_nodes_ok(rs, items) ==
    \A k \in 1..Len(items) :
        LET nd == items[k] IN
        /\ nd.name = structure_clean_name(rs[nd.row + 1].elem)
        /\ (nd.kind = "dict") <=> (structure_next_level(rs, nd.row) > structure_level_at(rs, nd.row))
        /\ nd.kind = "str" => nd.items = <<>>
        /\ nd.kind = "dict" =>
              keys_of(nd.items) = first_occurrences(names_of(rs, direct_child_rows(rs, nd.row)))
        /\ structure_nodes_ok(rs, nd.items)

\* C11: parse_structure keys every node by its element name, never by the
\* type column; a row with no deeper next row is a leaf and a row followed by
\* a deeper row maps to the ordered mapping of its direct children; the rows
\* a / b (type btype) / >c give {"a": leaf, "b": {"c": leaf}} with the leaves
\* [a, c].
C11_StructureByElementName ==
    pc = "done" =>
        /\ structure_nodes_ok(rows, top_entries)
        /\ keys_of(top_entries) = first_occurrences(names_of(rows, top_level_rows(rows)))
        /\ rows = ExampleData =>
              /\ erase(top_entries)
                   = erase(<<Str(<<"a">>, 0), Dict(<<"b">>, <<Str(<<"c">>, 2)>>, 1)>>)
              /\ preorder_leaves(top_entries) = <<<<"a">>, <<"c">>>>

\* the example of __main__ parsed
C11_Witness == pc = "done" /\ rows = ExampleData /\ Len(top_entries) = 2

(***************************************************************************)
(* excel_style.py, the batch script: build_structure (a dict, [] for a     *)
(* leaf), process_dataframe, extract_datafields and process_files.         *)
(* count_level and clean_name are the functions modelled first; clean_type *)
(* is the one of final.py, None written <<>>.                              *)
(* A document is what pd.read_excel does with it: it raises, or it gives   *)
(* the rows.  args holds the arguments of process_files, i the position of *)
(* its loop and out the files written so far.                              *)
(***************************************************************************)

MaxFiles == 3

RECURSIVE batch_build_structure(_, _, _), batch_structure_loop(_, _, _, _)

\* the while loop of build_structure, from index k with the result so far
batch_structure_loop(rs, k, level, result) ==
    IF k >= Len(rs) THEN [result |-> result, i |-> k]
    ELSE LET lvl == level_at(rs, k)
             name == clean_name(rs[k + 1].elem)
         IN  IF lvl < level THEN [result |-> result, i |-> k]
             ELSE IF lvl = level
             THEN IF next_level(rs, k) > level
                  THEN LET r == batch_build_structure(rs, k + 1, level + 1)
                       IN  batch_structure_loop(rs, r.i, level,
                               dict_set(result, Dict(name, r.result, k)))
                  ELSE batch_structure_loop(rs, k + 1, level,
                               dict_set(result, Str(name, k)))
             ELSE batch_structure_loop(rs, k + 1, level, result)

batch_build_structure(rs, start, level) == batch_structure_loop(rs, start, level, <<>>)

\* the rows process_dataframe keeps: not both cells empty
dataframe_rows(rs) == SelectSeq(rs, LAMBDA r : ~(is_blank(r.elem) /\ is_blank(r.type)))

RECURSIVE mapping_loop(_, _, _)
\* `for elem_raw, type_raw in rows: mapping[clean_name(elem_raw)] = clean_type(type_raw)`
mapping_loop(rs, k, mapping) ==
    IF k >= Len(rs) THEN mapping
    ELSE mapping_loop(rs, k + 1,
             dict_set(mapping, [name |-> clean_name(rs[k + 1].elem),
                                value |-> clean_type(rs[k + 1].type)]))

process_dataframe(rs) ==
    [mapping |-> mapping_loop(dataframe_rows(rs), 0, <<>>),
     structure |-> batch_build_structure(dataframe_rows(rs), 0, 0).result]

RECURSIVE datafields_dfs(_, _)
\* dfs of extract_datafields over the entries of a dict, fields so far in acc
datafields_dfs(node, acc) ==
    IF node = <<>> THEN acc
    ELSE LET v == Head(node)
         IN  datafields_dfs(Tail(node),
                 IF v.kind = "str" THEN Append(acc, v.name)
                 ELSE datafields_dfs(v.items, acc))

extract_datafields(structure) == datafields_dfs(structure, <<>>)

\* what one pass of the loop of process_files writes for the document at
\* position k of the batch
files_written(k, rs) ==
    LET r == process_dataframe(rs)
    IN  [file |-> k, jfile |-> r.mapping, tfile |-> extract_datafields(r.structure)]

Unreadable == [readable |-> FALSE, rows |-> <<>>]
Document(rs) == [readable |-> TRUE, rows |-> rs]

BatchDocuments ==
    {Unreadable}
      \cup {Document(rs) : rs \in
              { <<Row(<<"a">>, <<"x">>)>>,
                <<Row(<<"a">>, <<"x">>), Row(<<">", "b">>, <<"x", ":", "T">>)>>,
                <<Row(<<>>, <<>>), Row(<<"n", ":", "B">>, <<"x">>)>>,
                <<Row(<<"a">>, <<"x">>), Row(<<">", "a">>, <<"x">>), Row(<<"b">>, <<"x">>)>> }}

InitFiles ==
    /\ args \in [excel_files : SeqsUpTo(BatchDocuments, MaxFiles) \ {<<>>}]
    /\ pc = "loop"
    /\ i = 0
    /\ rows = <<>>
    /\ stack = <<>>
    /\ top_entries = <<>>
    /\ seen = {}
    /\ leaves = <<>>
    /\ consumed = <<>>
    /\ ret = NoReturn
    /\ out = <<>>

\* one pass of the loop: the document is read and its two files are written
ProcessFile ==
    /\ pc = "loop"
    /\ i < Len(args.excel_files)
    /\ args.excel_files[i + 1].readable
    /\ rows' = args.excel_files[i + 1].rows
    /\ out' = Append(out, files_written(i, rows'))
    /\ i' = i + 1
    /\ UNCHANGED <<pc, stack, top_entries, seen, leaves, consumed, args, ret>>

\* pd.read_excel raises: nothing in process_files catches it
ReadRaises ==
    /\ pc = "loop"
    /\ i < Len(args.excel_files)
    /\ ~args.excel_files[i + 1].readable
    /\ pc' = "raised"
    /\ UNCHANGED <<rows, i, stack, top_entries, seen, leaves, consumed, args, ret, out>>

\* the zip is exhausted
FilesDone ==
    /\ pc = "loop"
    /\ i = Len(args.excel_files)
    /\ pc' = "done"
    /\ UNCHANGED <<rows, i, stack, top_entries, seen, leaves, consumed, args, ret, out>>

NextFiles == ProcessFile \/ ReadRaises \/ FilesDone

SpecFiles == InitFiles /\ [][NextFiles]_vars

\* the files a batch writes when every document of it can be read
batch_outputs(files) == [k \in 1..Len(files) |-> files_written(k - 1, files[k].rows)]

readable_positions(files) ==
    SelectSeq([k \in 1..Len(files) |-> k], LAMBDA k : files[k].readable)

\* C12: when reading one document of a batch fails, the outputs of the other
\* documents, those before it and those after it, are still produced and
\* are the ones a batch without the failing document produces.
C12_FailureIsolation ==
    pc \in {"done", "raised"} =>
        LET files == args.excel_files
            ok == readable_positions(files)
            alone == batch_outputs([k \in 1..Len(ok) |-> files[ok[k]]])
        IN  /\ Len(out) = Len(ok)
            /\ \A k \in 1..Len(ok) :
                  /\ out[k].file = ok[k] - 1
                  /\ out[k].jfile = alone[k].jfile
                  /\ out[k].tfile = alone[k].tfile

(***************************************************************************)
(* Two invocations, each of parse_rows (excel_style.py) or extract_leaves  *)
(* (final.py), interleaved at the passes of their loops.  args[p] is the   *)
(* argument of invocation p, stack[p] its locals and ret[p] what it        *)
(* returned; consumed keeps the arguments as they were at the calls.       *)
(***************************************************************************)

Invocations == {1, 2}

\* the locals carried over from another call
parse_rows_locals_kept(left) == left
\* `i = 0`, `top_entries = []`, `seen = set()`, `leaves = []`: the locals of a
\* new call of parse_rows, whatever another call has in its own (left)
parse_rows_locals(left) == [i |-> 0, top_entries |-> <<>>, seen |-> {}, leaves |-> <<>>]

\* `if leaves is None: leaves = []`
leaves_or_new(leaves_arg) == IF ~leaves_arg.given THEN <<>> ELSE leaves_arg.value

\* one pass of the while loop of parse_rows over the locals loc
rows_iteration(rs, loc) ==
    LET k == loc.i
        acc == [seen |-> loc.seen, leaves |-> loc.leaves]
        top_elem == extract_after_colon(rs[k + 1].elem)
    IN  IF is_blank(rs[k + 1].elem) THEN [loc EXCEPT !.i = k + 1]
        ELSE IF level_at(rs, k) # 0 THEN [loc EXCEPT !.i = k + 1]
        ELSE IF next_level(rs, k) > 0
        THEN LET key == mapping_key(rs[k + 1].type, top_elem)
                 r == _parse_children(rs, child_start(k), 0)
                 acc1 == collect_leaves_from_items(r.children, acc)
             IN  [i |-> r.idx, top_entries |-> Append(loc.top_entries, Mapping(key, r.children, k)),
                  seen |-> acc1.seen, leaves |-> acc1.leaves]
        ELSE LET acc1 == add_leaf(acc, top_elem)
             IN  [i |-> k + 1, top_entries |-> Append(loc.top_entries, Leaf(top_elem, k)),
                  seen |-> acc1.seen, leaves |-> acc1.leaves]

\* the documents the invocations are given
InvocationDocuments ==
    { <<Row(<<"a">>, <<>>)>>,
      <<Row(<<"a">>, <<>>), Row(<<">", "b">>, <<>>)>>,
      <<Row(<<"a">>, <<>>), Row(<<">", "a">>, <<>>), Row(<<"b">>, <<>>)>>,
      <<Row(<<"b">>, <<"x", ":", "T">>), Row(<<">", "a">>, <<>>), Row(<<">", ">", "b">>, <<>>),
        Row(<<"a">>, <<>>)>>,
      <<Row(<<">", "a">>, <<>>), Row(<<"b">>, <<>>), Row(<<"a">>, <<>>)>> }

\* the arguments: rows for parse_rows, the structure of process_excel of
\* final.py for extract_leaves
InvocationArgs ==
    {[fn |-> "parse_rows", input |-> rs] : rs \in InvocationDocuments}
      \cup {[fn |-> "extract_leaves", input |-> outer_structure(build_structure(rs, 0, 0).result)] :
              rs \in InvocationDocuments}

NotCalled == [pc |-> "ready", i |-> 0, top_entries |-> <<>>, seen |-> {}, leaves |-> <<>>, todo |-> <<>>]

InitInvocations ==
    /\ args \in [Invocations -> InvocationArgs]
    /\ consumed = args
    /\ stack = [p \in Invocations |-> NotCalled]
    /\ ret = [p \in Invocations |-> <<>>]
    /\ pc = "run"
    /\ rows = <<>>
    /\ i = 0
    /\ top_entries = <<>>
    /\ seen = {}
    /\ leaves = <<>>
    /\ out = <<>>

\* the locals another invocation has at this moment
locals_of(p) ==
    [i |-> stack[p].i, top_entries |-> stack[p].top_entries,
     seen |-> stack[p].seen, leaves |-> stack[p].leaves]

\* invocation p is called: parse_rows(rows)
CallParseRows(p) ==
    /\ args[p].fn = "parse_rows"
    /\ stack[p].pc = "ready"
    /\ \E q \in Invocations \ {p} :
          LET loc == parse_rows_locals(locals_of(q))
          IN  stack' = [stack EXCEPT ![p] =
                  [pc |-> "running", i |-> loc.i, top_entries |-> loc.top_entries,
                   seen |-> loc.seen, leaves |-> loc.leaves, todo |-> <<>>]]
    /\ UNCHANGED <<rows, pc, i, top_entries, seen, leaves, consumed, args, ret, out>>

\* one pass of `while i < n` in invocation p
ParseRowsPass(p) ==
    /\ args[p].fn = "parse_rows"
    /\ stack[p].pc = "running"
    /\ stack[p].i < Len(args[p].input)
    /\ LET loc == rows_iteration(args[p].input, locals_of(p))
       IN  stack' = [stack EXCEPT ![p] =
               [pc |-> "running", i |-> loc.i, top_entries |-> loc.top_entries,
                seen |-> loc.seen, leaves |-> loc.leaves, todo |-> <<>>]]
    /\ UNCHANGED <<rows, pc, i, top_entries, seen, leaves, consumed, args, ret, out>>

\* `return top_entries, leaves` in invocation p
ParseRowsReturn(p) ==
    /\ args[p].fn = "parse_rows"
    /\ stack[p].pc = "running"
    /\ stack[p].i >= Len(args[p].input)
    /\ ret' = [ret EXCEPT ![p] = [top_entries |-> stack[p].top_entries, leaves |-> stack[p].leaves]]
    /\ stack' = [stack EXCEPT ![p].pc = "returned"]
    /\ UNCHANGED <<rows, pc, i, top_entries, seen, leaves, consumed, args, out>>

\* invocation p is called: extract_leaves(final_structure), leaves not given
CallExtractLeaves(p) ==
    /\ args[p].fn = "extract_leaves"
    /\ stack[p].pc = "ready"
    /\ stack' = [stack EXCEPT ![p] =
           [NotCalled EXCEPT !.pc = "running",
                             !.leaves = leaves_or_new([given |-> FALSE, value |-> <<>>]),
                             !.todo = <<args[p].input>>]]
    /\ UNCHANGED <<rows, pc, i, top_entries, seen, leaves, consumed, args, ret, out>>

\* extract_leaves reaches the next node: a str is appended, the items of a
\* dict are visited next, in order
ExtractLeavesVisit(p) ==
    /\ args[p].fn = "extract_leaves"
    /\ stack[p].pc = "running"
    /\ stack[p].todo # <<>>
    /\ LET node == Head(stack[p].todo)
       IN  stack' = [stack EXCEPT
               ![p].leaves = IF node.kind = "str" THEN Append(@, node.name) ELSE @,
               ![p].todo = IF node.kind = "str" THEN Tail(@) ELSE node.items \o Tail(@)]
    /\ UNCHANGED <<rows, pc, i, top_entries, seen, leaves, consumed, args, ret, out>>

\* `return leaves` of the outermost call of extract_leaves in invocation p
ExtractLeavesReturn(p) ==
    /\ args[p].fn = "extract_leaves"
    /\ stack[p].pc = "running"
    /\ stack[p].todo = <<>>
    /\ ret' = [ret EXCEPT ![p] = stack[p].leaves]
    /\ stack' = [stack EXCEPT ![p].pc = "returned"]
    /\ UNCHANGED <<rows, pc, i, top_entries, seen, leaves, consumed, args, out>>

NextInvocations ==
    \E p \in Invocations :
        \/ CallParseRows(p)
        \/ ParseRowsPass(p)
        \/ ParseRowsReturn(p)
        \/ CallExtractLeaves(p)
        \/ ExtractLeavesVisit(p)
        \/ ExtractLeavesReturn(p)

SpecInvocations == InitInvocations /\ [][NextInvocations]_vars

\* what the function of invocation p returns for its argument when run alone
returns_alone(p) ==
    IF args[p].fn = "parse_rows" THEN parse_rows(args[p].input)
    ELSE extract_leaves(args[p].input, <<>>)

same_argument(p, q) == args[p].fn = args[q].fn /\ args[p].input = args[q].input

\* C13: parse_rows (excel_style.py) and extract_leaves (final.py) are
\* stateless: under every interleaving of two invocations each returns what
\* it returns when run alone on its argument, two invocations on the same
\* input return identical results, and the arguments are never modified.
C13_Stateless ==
    /\ args = consumed
    /\ \A p \in Invocations : stack[p].pc = "returned" => ret[p] = returns_alone(p)
    /\ \A p, q \in Invocations :
          (stack[p].pc = "returned" /\ stack[q].pc = "returned" /\ same_argument(p, q))
             => ret[p] = ret[q]

\* both invocations have returned, a parse_rows on one document and an
\* extract_leaves on the tree of another, each with two leaves or more
C13_Witness ==
    /\ \A p \in Invocations : stack[p].pc = "returned"
    /\ args[1].fn = "parse_rows" /\ Len(ret[1].leaves) >= 2
    /\ args[2].fn = "extract_leaves" /\ Len(ret[2]) >= 2

(***************************************************************************)
(* The name-extraction functions on single cells: clean_name (excel.py,    *)
(* final.py) and extract_after_colon (excel_reader.py, excel_style.py),    *)
(* and parse_rows of excel_style.py on the one-row document of the cell.   *)
(***************************************************************************)

MaxLen == 3

CellChars == {" ", ">", ":", "a", "B"}
Cells == SeqsUpTo(CellChars, MaxLen)

InitNames ==
    /\ rows \in {<<Row(c, <<>>)>> : c \in Cells}
    /\ pc = "cell"
    /\ i = 0
    /\ stack = <<>>
    /\ top_entries = <<>>
    /\ seen = {}
    /\ leaves = <<>>
    /\ consumed = <<>>
    /\ args = NoArgs
    /\ ret = NoReturn
    /\ out = <<>>

\* the two name-extraction functions applied to the cell
ExtractNames ==
    /\ pc = "cell"
    /\ out' = [clean_name |-> clean_name(rows[1].elem),
               extract_after_colon |-> extract_after_colon(rows[1].elem)]
    /\ pc' = "named"
    /\ UNCHANGED <<rows, i, stack, top_entries, seen, leaves, consumed, args, ret>>

\* parse_rows of excel_style.py on the document that has the cell as its
\* only element cell
ParseOneRow ==
    /\ pc = "named"
    /\ LET r == parse_rows(rows)
       IN  /\ top_entries' = r.top_entries
           /\ leaves' = r.leaves
    /\ pc' = "done"
    /\ UNCHANGED <<rows, i, stack, seen, consumed, args, ret, out>>

NextNames == ExtractNames \/ ParseOneRow

SpecNames == InitNames /\ [][NextNames]_vars

upper_case(c) == lower_char(c) # c
canonical(name) == \A k \in 1..Len(name) : name[k] # ":" /\ ~upper_case(name[k])

\* C14: each name-extraction function returns the text after the last ':' of
\* the trimmed cell without its marker run, trimmed and lowercased, so every
\* leaf identifier and group key of a builder has no ':' and no upper-case
\* letter.
C14_NamesCanonical ==
    /\ pc \in {"named", "done"} =>
          LET cell == rows[1].elem
              name == lower(strip(after_last_colon(strip_markers(strip(cell)))))
          IN  /\ out.clean_name = name
              /\ out.extract_after_colon = name
              /\ canonical(out.clean_name)
              /\ canonical(out.extract_after_colon)
    /\ pc = "done" => \A k \in 1..Len(leaves) : canonical(leaves[k])

(***************************************************************************)
(* Properties of the skip branch and of the groups of excel_style.py,      *)
(* stated on the statement-by-statement run of parse_rows.                 *)
(***************************************************************************)

\* the innermost call of _parse_children is at a row deeper than its
\* base_level + 1
at_too_deep_row ==
    /\ pc = "children"
    /\ Top(stack).idx < Len(rows)
    /\ level_at(rows, Top(stack).idx) > Top(stack).base_level + 1

\* the step taken there moves idx by one and nothing else
skip_step ==
    /\ stack' = SetTop(stack, [Top(stack) EXCEPT !.idx = @ + 1])
    /\ pc' = "children"
    /\ top_entries' = top_entries
    /\ leaves' = leaves
    /\ seen' = seen

\* the rows noted as skipped in the calls of _parse_children or at top level
skipped_rows == {consumed[k].row : k \in {j \in 1..Len(consumed) : consumed[j].how = "skip"}}

\* row k lies in the block of the group opened by row g: every row from the
\* one after g up to k is deeper than g
in_block_of(g, k) == k > g /\ \A j \in (g + 1)..k : level_at(rows, j) > level_at(rows, g)

RECURSIVE groups_keep_children(_)
\* every group under items has every row of its block that is one level
\* deeper than its own row among its direct children
groups_keep_children(items) ==
    \A n \in 1..Len(items) :
        LET g == items[n] IN
        g.kind \in {"mapping", "dict"} =>
            /\ \A k \in 0..(Len(rows) - 1) :
                  (in_block_of(g.row, k) /\ level_at(rows, k) = level_at(rows, g.row) + 1)
                     => \E m \in 1..Len(g.items) : g.items[m].row = k
            /\ groups_keep_children(g.items)

\* C15: a row _parse_children meets at base depth b with depth greater than
\* b+1 is skipped by advancing the index by exactly 1: no node or leaf comes
\* from it, the run goes on, and the rows after it at depth b+1 are still
\* children of the same group.
C15_SkipTooDeep ==
    /\ [][at_too_deep_row => skip_step]_vars
    /\ [](pc \in {"done", "written"} =>
             /\ \A k \in skipped_rows : \A n \in 1..Len(item_rows(top_entries)) :
                   item_rows(top_entries)[n] # k
             /\ groups_keep_children(top_entries))

\* a group whose first row was too deep and skipped, with a child after it
C15_Witness ==
    /\ pc = "done"
    /\ \E n \in 1..Len(top_entries) :
          LET g == top_entries[n] IN
          /\ g.kind = "mapping"
          /\ g.row + 1 \in skipped_rows
          /\ level_at(rows, g.row + 1) > 1
          /\ \E m \in 1..Len(g.items) : g.items[m].row > g.row + 1

(***************************************************************************)
(* parse_rows of excel_style.py on documents whose rows have a type cell   *)
(* at every depth.                                                         *)
(***************************************************************************)

TypedRows ==
    {Row(Markers(d) \o <<"a">>, <<>>) : d \in 0..MaxDepth}
      \cup {Row(Markers(d) \o <<"b">>, <<"x", ":", "t">>) : d \in 0..MaxDepth}

InitTyped ==
    /\ rows \in SeqsUpTo(TypedRows, MaxRows)
    /\ pc = "start"
    /\ i = 0
    /\ stack = <<>>
    /\ top_entries = <<>>
    /\ seen = {}
    /\ leaves = <<>>
    /\ consumed = <<>>
    /\ args = NoArgs
    /\ ret = NoReturn
    /\ out = <<>>

\* top_entries, leaves = parse_rows(rows)
TypedParseRows ==
    /\ pc = "start"
    /\ LET r == parse_rows(rows)
       IN  /\ top_entries' = r.top_entries
           /\ leaves' = r.leaves
    /\ pc' = "done"
    /\ UNCHANGED <<rows, i, stack, seen, consumed, args, ret, out>>

NextTyped == TypedParseRows

SpecTyped == InitTyped /\ [][NextTyped]_vars

RECURSIVE groups_keyed_by_type(_)
\* every group under items has the name of its row's type cell as key when
\* that cell is not empty, and the name of its element cell otherwise
groups_keyed_by_type(items) ==
    \A n \in 1..Len(items) :
        LET g == items[n] IN
        g.kind \in {"mapping", "dict"} =>
            /\ g.name = IF ~is_blank(rows[g.row + 1].type)
                        THEN extract_after_colon(rows[g.row + 1].type)
                        ELSE extract_after_colon(rows[g.row + 1].elem)
            /\ groups_keyed_by_type(g.items)

\* C16: every group parse_rows and _parse_children of excel_style.py make, at
\* top level and at every nested level, is keyed by the name of the type
\* column when it is non-empty and by that of the element column otherwise.
C16_GroupKeyFromType == pc = "done" => groups_keyed_by_type(top_entries)

(***************************************************************************)
(* The lookahead of build_structure of final.py.                           *)
(***************************************************************************)

RECURSIVE lookahead_decides(_, _)
\* every node under items is a group exactly when the row after its row
\* exists and is deeper than its row, and a leaf holds the name of its row
lookahead_decides(rs, items) ==
    \A n \in 1..Len(items) :
        LET nd == items[n]
            deeper_next == /\ nd.row + 1 < Len(rs)
                           /\ level_at(rs, nd.row + 1) > level_at(rs, nd.row)
        IN  /\ (nd.kind = "dict") <=> deeper_next
            /\ (nd.kind = "str") <=> ~deeper_next
            /\ nd.kind = "str" => nd.name = clean_name(rs[nd.row + 1].elem) /\ nd.items = <<>>
            /\ lookahead_decides(rs, nd.items)

\* C17: in build_structure of final.py a row handled at its own level becomes
\* a group if and only if the next row exists and is strictly deeper; a row
\* followed by a row of the same or a lower depth, and the last row, becomes
\* a leaf holding its canonical name.
C17_LookaheadDecides ==
    pc \in {"built", "done"} => lookahead_decides(rows, top_entries)

\* a group holding a leaf that is followed by a row of the same or a lower
\* depth, and the last row a leaf at top level
C17_Witness ==
    /\ pc = "done"
    /\ \E n \in 1..Len(top_entries) :
          /\ top_entries[n].kind = "dict"
          /\ \E m \in 1..Len(top_entries[n].items) :
                /\ top_entries[n].items[m].kind = "str"
                /\ top_entries[n].items[m].row + 1 < Len(rows)
    /\ top_entries[Len(top_entries)] = Str(clean_name(rows[Len(rows)].elem), Len(rows) - 1)

(***************************************************************************)
(* The leaves of the mapping parse_rows of excel_reader.py returns.        *)
(***************************************************************************)

RECURSIVE mapping_leaves(_)
\* the leaf names reachable in the entries of a mapping: the value of a
\* top-level `key: name` entry, the key of a `key: None` entry, the strings of
\* a nested list
mapping_leaves(entries) ==
    UNION {IF entries[k].kind = "leaf" THEN {entries[k].items[1].name}
           ELSE IF entries[k].kind = "str" THEN {entries[k].name}
           ELSE mapping_leaves(entries[k].items) : k \in 1..Len(entries)}

\* C18: the identifiers in all_leaves of parse_rows of excel_reader.py are
\* exactly the leaf names reachable in the returned mapping, also when
\* sibling groups or top-level entries share a key.
C18_LeavesOfMapping ==
    pc \in {"parsed", "done"} =>
        {leaves[k] : k \in 1..Len(leaves)} = mapping_leaves(top_entries)

(***************************************************************************)
(* The groups of excel_style.py and their children.                        *)
(***************************************************************************)

RECURSIVE groups_have_children(_, _)
\* every group under items has a child, and every node without a child is
\* a leaf whose name is in the list lst
groups_have_children(items, lst) ==
    \A n \in 1..Len(items) :
        LET nd == items[n] IN
        /\ nd.kind \in {"mapping", "dict"} => nd.items # <<>>
        /\ nd.items = <<>> =>
              /\ nd.kind \in {"leaf", "str"}
              /\ \E k \in 1..Len(lst) : lst[k] = nd.name
        /\ groups_have_children(nd.items, lst)

\* C19: every node parse_rows and _parse_children of excel_style.py emit as a
\* group has at least one child; a row that ends up with no child is a leaf
\* and is in the leaf list, also when the row after it skips a depth level.
C19_GroupsHaveChildren ==
    pc \in {"done", "written"} => groups_have_children(top_entries, leaves)


\* row g has a row exactly one level deeper in its block
has_direct_row(g) ==
    \E k \in 0..(Len(rows) - 1) :
        in_block_of(g, k) /\ level_at(rows, k) = level_at(rows, g) + 1

RECURSIVE groups_follow_lookahead(_, _)
\* every group under items comes from a row followed by a deeper row and has
\* a child exactly when its block has a row one level deeper; every node
\* without a child that is not such a group is a leaf in the list lst
groups_follow_lookahead(items, lst) ==
    \A n \in 1..Len(items) :
        LET nd == items[n] IN
        /\ nd.kind \in {"mapping", "dict"} =>
              /\ next_level(rows, nd.row) > level_at(rows, nd.row)
              /\ (nd.items # <<>>) <=> has_direct_row(nd.row)
        /\ nd.kind \in {"leaf", "str"} =>
              /\ nd.items = <<>>
              /\ ~(next_level(rows, nd.row) > level_at(rows, nd.row))
              /\ \E k \in 1..Len(lst) : lst[k] = nd.name
        /\ groups_follow_lookahead(nd.items, lst)

\* C19 amended: a node of parse_rows and _parse_children of excel_style.py is
\* a group exactly when the row after its row is deeper, and a group has at
\* least one child exactly when a row one level deeper lies in its block; a
\* group whose block only has rows that skip a level is emitted with no child
\* and gives no leaf, and every leaf is in the leaf list.
C19_GroupsAmended ==
    pc \in {"done", "written"} => groups_follow_lookahead(top_entries, leaves)

\* a top-level group emitted with no child: the row after it skips a level
C19_Witness ==
    /\ pc = "done"
    /\ \E n \in 1..Len(top_entries) :
          /\ top_entries[n].kind = "mapping"
          /\ top_entries[n].items = <<>>
          /\ level_at(rows, top_entries[n].row + 1) >= 2


\* no blank element cell, the first row at depth 0, every row at most one
\* level deeper than the row before it
well_formed_document(rs) ==
    /\ \A k \in 1..Len(rs) : ~is_blank(rs[k].elem)
    /\ well_formed(rs)

\* C20: no row is lost on well-formed input: parse_rows of excel_style.py
\* makes exactly one node per row, and the pre-order walk of the tree lists
\* the nodes in the order of their rows.
C20_NoRowLost ==
    (pc \in {"done", "written"} /\ well_formed_document(rows))
        => item_rows(top_entries) = [k \in 1..Len(rows) |-> k - 1]

\* a well-formed document with a group in a group and a top-level row after
\* them
C20_Witness ==
    /\ pc = "done"
    /\ well_formed_document(rows)
    /\ Len(rows) >= 4
    /\ level_at(rows, 2) = 2
    /\ level_at(rows, Len(rows) - 1) = 0

(***************************************************************************)
(* tree.py: process_file and main.  The file system is args: the files     *)
(* os.walk finds, in its order, and for each file what ET.parse and        *)
(* resolve_lkpath give for it: parsing raises, or the file has TestItems,  *)
(* each with no lkpath or with an lkpath resolved to a .gts file, to a     *)
(* .tsq file or to an error.  stack holds the active calls of process_file,*)
(* i the position of main in the walk and consumed the paths handed to     *)
(* ET.parse, in order.                                                     *)
(***************************************************************************)

MaxItems == 2

visited_files == seen
sheet_main == out
sheet_error == leaves

GtsPaths == {"A", "B"}
TsqPaths == {"T"}

\* os.path.splitext(os.path.basename(path))[0]
base_name(path) == <<path>>

Unparseable == [parses |-> FALSE, items |-> <<>>]
Parsed(items) == [parses |-> TRUE, items |-> items]

\* a TestItem, by what test_item.get("lkpath") and resolve_lkpath give
TestItems ==
    {[found_type |-> "gts", found_path |-> p] : p \in GtsPaths}
      \cup {[found_type |-> "tsq", found_path |-> p] : p \in TsqPaths}
      \cup {[found_type |-> "error", found_path |-> "x"], [found_type |-> "none", found_path |-> "x"]}

GtsContents == {Unparseable} \cup {Parsed(s) : s \in SeqsUpTo(TestItems, MaxItems)}
TsqContents == {Unparseable, Parsed(<<>>), Parsed(<<[found_type |-> "gts", found_path |-> "A"]>>)}

\* the set of visited paths without the new one
visited_add_none(visited, file_path) == visited
\* `visited_files.add(file_path)`
visited_add(visited, file_path) == visited \cup {file_path}

\* a call of process_file(file_path, parent_name) and its locals; at is
\* "enter" before the test of visited_files, "loop" in the for loop, k the
\* number of TestItems done
Call(file_path, parent_name) ==
    [file_path |-> file_path, parent_name |-> parent_name, at |-> "enter",
     k |-> 0, gts_list |-> <<>>, tsq_list |-> <<>>]

InitTree ==
    /\ args \in [files : {<<"A", "B", "T">>},
                 content : {c \in [GtsPaths \cup TsqPaths -> GtsContents \cup TsqContents] :
                               /\ \A p \in GtsPaths : c[p] \in GtsContents
                               /\ \A p \in TsqPaths : c[p] \in TsqContents}]
    /\ pc = "main"
    /\ i = 0
    /\ stack = <<>>
    /\ seen = {}
    /\ out = <<[filename |-> <<"filename">>, subgts |-> <<"subgts">>, tsq |-> <<"tsq">>]>>
    /\ leaves = <<[parent_gts |-> <<"parent_gts">>, lkpath |-> "lkpath"]>>
    /\ consumed = <<>>
    /\ rows = <<>>
    /\ top_entries = <<>>
    /\ ret = NoReturn

\* main: process_file(file_path, filename) for the next file of the walk
MainCall ==
    /\ pc = "main" /\ stack = <<>>
    /\ i < Len(args.files)
    /\ stack' = <<Call(args.files[i + 1], base_name(args.files[i + 1]))>>
    /\ i' = i + 1
    /\ UNCHANGED <<rows, pc, top_entries, seen, leaves, consumed, args, ret, out>>

\* `if file_path in visited_files: return`
ReturnVisited ==
    /\ pc = "main" /\ stack # <<>>
    /\ Top(stack).at = "enter"
    /\ Top(stack).file_path \in visited_files
    /\ stack' = Pop(stack)
    /\ UNCHANGED <<rows, pc, i, top_entries, seen, leaves, consumed, args, ret, out>>

\* visited_files.add(file_path); ET.parse raises: a row on the Errors sheet
ParseError ==
    /\ pc = "main" /\ stack # <<>>
    /\ Top(stack).at = "enter"
    /\ Top(stack).file_path \notin visited_files
    /\ ~args.content[Top(stack).file_path].parses
    /\ visited_files' = visited_add(visited_files, Top(stack).file_path)
    /\ consumed' = Append(consumed, Top(stack).file_path)
    /\ sheet_error' = Append(sheet_error,
           [parent_gts |-> Top(stack).parent_name, lkpath |-> "parse_error"])
    /\ stack' = Pop(stack)
    /\ UNCHANGED <<rows, pc, i, top_entries, args, ret, out>>

\* visited_files.add(file_path); ET.parse gives the tree
ParseFile ==
    /\ pc = "main" /\ stack # <<>>
    /\ Top(stack).at = "enter"
    /\ Top(stack).file_path \notin visited_files
    /\ args.content[Top(stack).file_path].parses
    /\ visited_files' = visited_add(visited_files, Top(stack).file_path)
    /\ consumed' = Append(consumed, Top(stack).file_path)
    /\ stack' = SetTop(stack, [Top(stack) EXCEPT !.at = "loop"])
    /\ UNCHANGED <<rows, pc, i, top_entries, leaves, args, ret, out>>

\* the TestItem the innermost call is at
test_item == args.content[Top(stack).file_path].items[Top(stack).k + 1]

in_loop ==
    /\ pc = "main" /\ stack # <<>>
    /\ Top(stack).at = "loop"
    /\ Top(stack).k < Len(args.content[Top(stack).file_path].items)

\* `if not lkpath: continue`
ItemWithoutLkpath ==
    /\ in_loop
    /\ test_item.found_type = "none"
    /\ stack' = SetTop(stack, [Top(stack) EXCEPT !.k = @ + 1])
    /\ UNCHANGED <<rows, pc, i, top_entries, seen, leaves, consumed, args, ret, out>>

\* found_type == "gts": gts_list.append(subgts_name); process_file(found_path, subgts_name)
ItemGts ==
    /\ in_loop
    /\ test_item.found_type = "gts"
    /\ stack' = Append(SetTop(stack, [Top(stack) EXCEPT
                           !.k = @ + 1,
                           !.gts_list = Append(@, base_name(test_item.found_path))]),
                       Call(test_item.found_path, base_name(test_item.found_path)))
    /\ UNCHANGED <<rows, pc, i, top_entries, seen, leaves, consumed, args, ret, out>>

\* found_type == "tsq": tsq_list.append(tsq_name)
ItemTsq ==
    /\ in_loop
    /\ test_item.found_type = "tsq"
    /\ stack' = SetTop(stack, [Top(stack) EXCEPT
                           !.k = @ + 1,
                           !.tsq_list = Append(@, base_name(test_item.found_path))])
    /\ UNCHANGED <<rows, pc, i, top_entries, seen, leaves, consumed, args, ret, out>>

\* else: a row on the Errors sheet
ItemError ==
    /\ in_loop
    /\ test_item.found_type = "error"
    /\ sheet_error' = Append(sheet_error,
           [parent_gts |-> Top(stack).parent_name, lkpath |-> "lkpath"])
    /\ stack' = SetTop(stack, [Top(stack) EXCEPT !.k = @ + 1])
    /\ UNCHANGED <<rows, pc, i, top_entries, seen, consumed, args, ret, out>>

\* `",".join(lst) if lst else "-"`
joined_or_dash(lst) == IF lst # <<>> THEN join(lst, <<",">>) ELSE <<"-">>

\* the for loop is over: the row of the file on the Mapping sheet
WriteMainRow ==
    /\ pc = "main" /\ stack # <<>>
    /\ Top(stack).at = "loop"
    /\ Top(stack).k = Len(args.content[Top(stack).file_path].items)
    /\ sheet_main' = Append(sheet_main,
           [filename |-> Top(stack).parent_name,
            subgts |-> joined_or_dash(Top(stack).gts_list),
            tsq |-> joined_or_dash(Top(stack).tsq_list)])
    /\ stack' = Pop(stack)
    /\ UNCHANGED <<rows, pc, i, top_entries, seen, leaves, consumed, args, ret>>

\* the walk is over: workbook.save(OUTPUT_EXCEL)
MainSave ==
    /\ pc = "main" /\ stack = <<>>
    /\ i = Len(args.files)
    /\ pc' = "saved"
    /\ UNCHANGED <<rows, i, stack, top_entries, seen, leaves, consumed, args, ret, out>>

NextTree ==
    \/ MainCall
    \/ ReturnVisited
    \/ ParseError
    \/ ParseFile
    \/ ItemWithoutLkpath
    \/ ItemGts
    \/ ItemTsq
    \/ ItemError
    \/ WriteMainRow
    \/ MainSave

SpecTree == InitTree /\ [][NextTree]_vars


\* what a call still has to do: 1 before its test of visited_files, then two
\* per TestItem left and one for its row
call_cost(f) ==
    IF f.at = "enter" THEN 1
    ELSE 2 * (Len(args.content[f.file_path].items) - f.k) + 1

RECURSIVE calls_cost(_)
calls_cost(s) == IF s = <<>> THEN 0 ELSE call_cost(Head(s)) + calls_cost(Tail(s))

\* what is left of the run: decreases with every statement
tree_measure ==
    (2 * MaxItems + 1) * Cardinality((GtsPaths \cup TsqPaths) \ visited_files)
      + 2 * (Len(args.files) - i) + calls_cost(stack)
      + (IF pc = "saved" THEN 0 ELSE 1)

\* the innermost call is about to test a path that is in visited_files
enters_visited ==
    pc = "main" /\ stack # <<>> /\ Top(stack).at = "enter"
       /\ Top(stack).file_path \in visited_files

\* the call returns: nothing is parsed and no sheet gets a row
returns_at_once ==
    /\ stack' = Pop(stack)
    /\ consumed' = consumed
    /\ sheet_main' = sheet_main
    /\ sheet_error' = sheet_error
    /\ visited_files' = visited_files

\* C21: process_file parses each file path at most once per run: a path in
\* visited_files is never parsed again and adds no row to the Mapping sheet,
\* and the recursion over referenced .gts files terminates, also when files
\* reference each other in a cycle or reference themselves.
C21_ParsedOnce ==
    /\ [](/\ no_duplicates(consumed)
          /\ visited_files = {consumed[k] : k \in 1..Len(consumed)}
          /\ Len(sheet_main) - 1 <= Len(consumed)
          /\ tree_measure >= 0)
    /\ [][/\ enters_visited => returns_at_once
          /\ tree_measure' < tree_measure]_vars

\* a finished run over two files that reference each other, one of them
\* itself as well
C21_Witness ==
    /\ pc = "saved"
    /\ \E k \in 1..Len(args.content["A"].items) :
          args.content["A"].items[k] = [found_type |-> "gts", found_path |-> "B"]
    /\ \E k \in 1..Len(args.content["B"].items) :
          args.content["B"].items[k] = [found_type |-> "gts", found_path |-> "A"]
    /\ \E k \in 1..Len(args.content["B"].items) :
          args.content["B"].items[k] = [found_type |-> "gts", found_path |-> "B"]
    /\ consumed = <<"A", "B", "T">>
    /\ Len(sheet_main) >= 3

====
